---- MODULE Spec2Model ----
(***************************************************************************)
(* The user-space NAT connection tracker of pkg/ebpf/netlink/conntracker.go *)
(* as a state machine: the translation index (state), the short-lived      *)
(* buffer (shortLivedBuffer), the statistics counters and the generation   *)
(* clock, driven by the create/update callback (register), the destroy     *)
(* callback (unregister), lookups, ClearShortLived and compaction passes.  *)
(* Every handler takes the engine mutex for its whole body, so one handler *)
(* is one atomic step.  Time is counted in minutes.  Further              *)
(* specifications take the construction, the mutex, the pointers and the   *)
(* ticker apart, and one is about the cluster name cache of                *)
(* pkg/util/kubernetes/clustername.                                        *)
(***************************************************************************)
EXTENDS Integers, Sequences, FiniteSets, TLC

VARIABLES
    state,                \* map[connKey]*connValue
    shortLivedBuffer,     \* map[connKey]*IPTranslation
    maxShortLivedBuffer,  \* deleteBufferSize given to NewConntracker
    maxStateSize,         \* maxStateSize given to NewConntracker
    stats,                \* gets, registers, unregisters, expiresTotal
    now,                  \* wall clock, in minutes
    last,                 \* history: the operation that made this state
    destroyed,            \* history: flows moved out of state by destroy events since the last clear
    nfct,                 \* the handle of the create/update subscription and the dumps
    nfctDel,              \* the handle of the destroy subscription
    compactTicker,        \* the ticker and the ticks waiting in its channel
    exceededSizeLogLimit, \* the log-rate limiter
    hooks,                \* the callbacks registered with the handles
    runStarted,           \* whether go ctr.run() was executed
    pc,                   \* where the goroutine running newConntrackerOnce is
    caller,               \* what NewConntracker has returned to its caller
    crashed,              \* a goroutine panicked
    statsCall,            \* the sizes a GetStats call in progress has read
    mutex,                \* the sync.Mutex of the tracker: the context holding it
    at,                   \* where each context that calls a handler is in it
    heap,                 \* the IPTranslation objects allocated, by address
    result,               \* the pointer the last lookup handed to its caller
    window,               \* history: the compaction passes of the generation so far
    clusterNameData,      \* clustername: the clusterNameData objects
    config,               \* clustername: the "cluster_name" setting
    goroutines,           \* clustername: what each caller is doing
    consulted             \* clustername history: the sources read since the reset

\* the tracker's maps, counters and clock, and the history of the calls
data == <<state, shortLivedBuffer, maxShortLivedBuffer, maxStateSize, stats, now,
          last, destroyed>>

\* the tracker's resources and goroutines
engine == <<nfct, nfctDel, compactTicker, exceededSizeLogLimit, hooks, runStarted,
            pc, caller, crashed, statsCall>>

\* the mutex and the contexts' places in the handlers
locking == <<mutex, at>>

\* the cluster name cache of pkg/util/kubernetes/clustername
clustername == <<clusterNameData, config, goroutines, consulted>>

\* what the handlers of the tracker, taken as values and atomic steps, leave
\* alone
outside == <<heap, result, window, clusterNameData, config, goroutines, consulted>>

vars == <<state, shortLivedBuffer, maxShortLivedBuffer, maxStateSize, stats, now,
          last, destroyed, nfct, nfctDel, compactTicker, exceededSizeLogLimit,
          hooks, runStarted, pc, caller, crashed, statsCall, mutex, at,
          heap, result, window, clusterNameData, config, goroutines, consulted>>

-----------------------------------------------------------------------------
(* Bounds of the model *)

MaxDump == 1
MaxOps == 3
MaxTicks == 3
MaxConsulted == 2

\* the arguments NewConntracker is called with
DeleteBufferSizes == {1, 2}
MaxStateSizes == {1, 2}

\* the generation the tracker is constructed in: uint8 wraps three later
StartGenerations == {253}

(* Program constants *)

compactInterval == 3
generationLength == compactInterval + 1
Uint8 == 256

-----------------------------------------------------------------------------
(* net.IP values: an IPv4 address comes in 4-byte form or in 16-byte       *)
(* IPv4-in-IPv6 form                                                       *)

NetIP(form, a) == [form |-> form, a |-> a]

\* net.IP.Equal: an IPv4 address and the same address in IPv6 form are equal
NetIPEqual(x, y) ==
    /\ x.a = y.a
    /\ (x.form = "v6") = (y.form = "v6")

\* util.AddressFromNetIP: To4() succeeds for both IPv4 forms
AddressFromNetIP(ip) ==
    [fam |-> IF ip.form = "v6" THEN 6 ELSE 4, a |-> ip.a]

process_ConnectionType_tcp == "tcp"
process_ConnectionType_udp == "udp"

-----------------------------------------------------------------------------
(* The conntrack entries (ct.Con) the kernel may deliver or dump           *)

IPA == NetIP("v4", 1)
IPA16 == NetIP("v4in6", 1)
IPB == NetIP("v4", 2)
IPS == NetIP("v4", 3)
IPN == NetIP("v4", 4)
IPM16 == NetIP("v4in6", 5)

Tuple(src, dst, number, sport, dport) ==
    [Src |-> src, Dst |-> dst,
     Proto |-> [Number |-> number, SrcPort |-> sport, DstPort |-> dport]]

\* a flow from osrc:1 to IPS:2 whose replies come from rsrc:2
Con(osrc, rsrc, number) ==
    [Origin |-> Tuple(osrc, IPS, number, 1, 2),
     Reply  |-> Tuple(rsrc, NetIP("v4", osrc.a), number, 2, 1)]

\* TCP flows of host A (one not NAT, two NAT), a UDP and an ICMP flow of
\* host A and a TCP flow of host B
Cons ==
    { Con(IPA16, rsrc, 6) : rsrc \in {IPS, IPN, IPM16} }
    \cup { Con(IPA16, IPN, number) : number \in {17, 1} }
    \cup { Con(IPB, IPN, 6) }

\* nil pointers: a tuple or Proto that is absent, an absent address, an absent
\* port or protocol number
NilPtr == [nil |-> TRUE]
NilIP == NetIP("nil", 0)
NilNumber == 0 - 1

ConnKey(ip, port, transport) == [ip |-> ip, port |-> port, transport |-> transport]

\* no entry, no key: what the history holds for an operation that has none
NoCon == Con(NetIP("none", 0), NetIP("none", 0), 0)
NoKey == ConnKey([fam |-> 0, a |-> 0], 0, "none")

\* the keys a caller looks up: those of the flows above and one with another port
LookupKeys ==
    { ConnKey(AddressFromNetIP(IPA), 1, process_ConnectionType_tcp),
      ConnKey(AddressFromNetIP(IPA), 1, process_ConnectionType_udp),
      ConnKey(AddressFromNetIP(IPB), 1, process_ConnectionType_tcp),
      ConnKey(AddressFromNetIP(IPA), 2, process_ConnectionType_tcp) }

-----------------------------------------------------------------------------
(* What an entry says, in the words of the specification: whether its reply *)
(* tuple is the exact mirror of its origin tuple, the flow it is about and  *)
(* its reply tuple, with addresses in canonical form                        *)

SameAddress(x, y) == AddressFromNetIP(x) = AddressFromNetIP(y)

Mirror(c) ==
    /\ SameAddress(c.Origin.Src, c.Reply.Dst)
    /\ SameAddress(c.Origin.Dst, c.Reply.Src)
    /\ c.Origin.Proto.SrcPort = c.Reply.Proto.DstPort
    /\ c.Origin.Proto.DstPort = c.Reply.Proto.SrcPort

\* an entry in which a required field is absent
Malformed(c) ==
    IF c.Origin = NilPtr \/ c.Reply = NilPtr THEN TRUE
    ELSE IF c.Origin.Proto = NilPtr \/ c.Reply.Proto = NilPtr THEN TRUE
    ELSE \/ NilNumber \in {c.Origin.Proto.SrcPort, c.Origin.Proto.DstPort,
                            c.Reply.Proto.SrcPort, c.Reply.Proto.DstPort,
                            c.Origin.Proto.Number}
         \/ NilIP \in {c.Origin.Src, c.Origin.Dst, c.Reply.Src, c.Reply.Dst}

\* a NAT entry of protocol TCP or UDP
TrackedEvent(c) ==
    IF Malformed(c) THEN FALSE
    ELSE ~Mirror(c) /\ c.Origin.Proto.Number \in {6, 17}

EventKey(c) ==
    ConnKey(AddressFromNetIP(c.Origin.Src), c.Origin.Proto.SrcPort,
            IF c.Origin.Proto.Number = 6 THEN process_ConnectionType_tcp
            ELSE process_ConnectionType_udp)

ReplyTuple(c) ==
    [ReplSrcIP   |-> AddressFromNetIP(c.Reply.Src),
     ReplDstIP   |-> AddressFromNetIP(c.Reply.Dst),
     ReplSrcPort |-> c.Reply.Proto.SrcPort,
     ReplDstPort |-> c.Reply.Proto.DstPort]

-----------------------------------------------------------------------------
(* Generation clock *)

getNthGeneration(genLength, baseTime, n) ==
    ((baseTime \div genLength) + n) % Uint8

getCurrentGeneration(genLength, baseTime) ==
    getNthGeneration(genLength, baseTime, 0)

-----------------------------------------------------------------------------
(* Event decoder *)

\* mutant: the addresses compared byte for byte instead of with net.IP.Equal
isNAT_ByteCompare(c) ==
    \/ c.Origin.Src # c.Reply.Dst
    \/ c.Origin.Dst # c.Reply.Src
    \/ c.Origin.Proto.SrcPort # c.Reply.Proto.DstPort
    \/ c.Origin.Proto.DstPort # c.Reply.Proto.SrcPort

\* the nil checks isNAT starts with
isNAT_FieldAbsent(c) ==
    IF c.Origin = NilPtr \/ c.Reply = NilPtr THEN TRUE
    ELSE IF c.Origin.Proto = NilPtr \/ c.Reply.Proto = NilPtr THEN TRUE
    ELSE \/ c.Origin.Proto.SrcPort = NilNumber
         \/ c.Origin.Proto.DstPort = NilNumber
         \/ c.Reply.Proto.SrcPort = NilNumber
         \/ c.Reply.Proto.DstPort = NilNumber

isNAT(c) ==
    IF isNAT_FieldAbsent(c) THEN FALSE
    ELSE \/ ~NetIPEqual(c.Origin.Src, c.Reply.Dst)
         \/ ~NetIPEqual(c.Origin.Dst, c.Reply.Src)
         \/ c.Origin.Proto.SrcPort # c.Reply.Proto.DstPort
         \/ c.Origin.Proto.DstPort # c.Reply.Proto.SrcPort

\* isNAT dereferences a nil address: the first comparison reads Origin.Src and
\* Reply.Dst, the second is evaluated only when the first found them equal
isNAT_NilDeref(c) ==
    /\ ~isNAT_FieldAbsent(c)
    /\ \/ c.Origin.Src = NilIP
       \/ c.Reply.Dst = NilIP
       \/ /\ NetIPEqual(c.Origin.Src, c.Reply.Dst)
          /\ (c.Origin.Dst = NilIP \/ c.Reply.Src = NilIP)

\* formatKey dereferences a nil address, port or protocol number
formatKey_NilDeref(c) ==
    \/ c.Origin.Src = NilIP
    \/ c.Origin.Proto.SrcPort = NilNumber
    \/ c.Origin.Proto.Number = NilNumber

\* formatIPTranslation dereferences a nil address or port
formatIPTranslation_NilDeref(c) ==
    \/ c.Reply.Src = NilIP
    \/ c.Reply.Dst = NilIP
    \/ c.Reply.Proto.SrcPort = NilNumber
    \/ c.Reply.Proto.DstPort = NilNumber

ReplSrcIP(c) == c.Reply.Src

ReplDstIP(c) == c.Reply.Dst

\* mutant: the two reply ports taken from each other's field
formatIPTranslation_SwappedPorts(c, generation) ==
    [IPTranslation |->
        [ReplSrcIP   |-> AddressFromNetIP(ReplSrcIP(c)),
         ReplDstIP   |-> AddressFromNetIP(ReplDstIP(c)),
         ReplSrcPort |-> c.Reply.Proto.DstPort,
         ReplDstPort |-> c.Reply.Proto.SrcPort],
     expGeneration |-> generation]

formatIPTranslation(c, generation) ==
    [IPTranslation |->
        [ReplSrcIP   |-> AddressFromNetIP(ReplSrcIP(c)),
         ReplDstIP   |-> AddressFromNetIP(ReplDstIP(c)),
         ReplSrcPort |-> c.Reply.Proto.SrcPort,
         ReplDstPort |-> c.Reply.Proto.DstPort],
     expGeneration |-> generation]

formatKey(c) ==
    LET ip == AddressFromNetIP(c.Origin.Src)
        port == c.Origin.Proto.SrcPort
        proto == c.Origin.Proto.Number
    IN  CASE proto = 6  -> [k |-> [ip |-> ip, port |-> port,
                                   transport |-> process_ConnectionType_tcp],
                            ok |-> TRUE]
          [] proto = 17 -> [k |-> [ip |-> ip, port |-> port,
                                   transport |-> process_ConnectionType_udp],
                            ok |-> TRUE]
          [] OTHER      -> [k |-> [ip |-> ip, port |-> port,
                                   transport |-> process_ConnectionType_tcp],
                            ok |-> FALSE]

-----------------------------------------------------------------------------
(* Go maps as functions on the set of keys present *)

EmptyMap == [k \in {} |-> 0]

len(m) == Cardinality(DOMAIN m)

MapSet(m, k, v) == [x \in DOMAIN m \cup {k} |-> IF x = k THEN v ELSE m[x]]

MapDelete(m, k) == [x \in DOMAIN m \ {k} |-> m[x]]

\* a nil *IPTranslation
NilTranslation ==
    [ReplSrcIP |-> [fam |-> 0, a |-> 0], ReplDstIP |-> [fam |-> 0, a |-> 0],
     ReplSrcPort |-> 0, ReplDstPort |-> 0]

-----------------------------------------------------------------------------
(* Construction: newConntrackerOnce seeds state from the two dumps *)

RECURSIVE loadInitialState(_, _, _)
loadInitialState(st, sessions, gen) ==
    IF sessions = <<>> THEN st
    ELSE LET c == Head(sessions)
             fk == formatKey(c)
             st1 == IF isNAT(c) /\ fk.ok
                    THEN MapSet(st, fk.k, formatIPTranslation(c, gen))
                    ELSE st
         IN  loadInitialState(st1, Tail(sessions), gen)

Dumps == UNION { [1..n -> Cons] : n \in 0..MaxDump }

StartTimes == { g * generationLength : g \in StartGenerations }

\* The history variable last: the operation op that made this state, the entry
\* con it was called with and its key, or the key it looked up; res: what a
\* lookup returned, or what state held for the key when the destroy callback
\* ran; room: whether the map the callback writes to was below its maximum;
\* prev: for a destroy, the create of the same flow that came directly before
\* it, for a lookup, the destroy of the same key that came directly before, and
\* for a clear, the lookup after a destroy that came directly before
Op(op, con, key, res, room, prev) ==
    [op |-> op, con |-> con, key |-> key, res |-> res, room |-> room, prev |-> prev]

NoOp(op) == Op(op, NoCon, NoKey, NilTranslation, FALSE, <<>>)

\* The history variable destroyed: the flows that destroy events took out of
\* state since the last ClearShortLived, in order, each with the translation
\* state held; NotDistinct once a flow was taken out twice
NotDistinct == <<[key |-> NoKey, tr |-> NilTranslation]>>

\* what state holds for key k, nil when it holds nothing
Tracked(k) == IF k \in DOMAIN state THEN state[k].IPTranslation ELSE NilTranslation

\* The cluster name cache, pkg/util/kubernetes/clustername.  A string is a
\* sequence of characters.

\* the characters a to z
Lower == {"a", "b", "c", "d", "e", "f", "g", "h", "i", "j", "k", "l", "m", "n",
          "o", "p", "q", "r", "s", "t", "u", "v", "w", "x", "y", "z"}

\* validClusterName.MatchString: ^[a-z]([a-z0-9\-]{0,38}[a-z0-9])?$
validClusterName(s) ==
    /\ Len(s) >= 1
    /\ s[1] \in Lower
    /\ \/ Len(s) = 1
       \/ /\ Len(s) <= 40
          /\ \A i \in 2..(Len(s) - 1) : s[i] \in Lower \cup {"0", "1", "2", "3", "4", "5", "6", "7",
                                                       "8", "9", "-"}
          /\ s[Len(s)] \in Lower \cup {"0", "1", "2", "3", "4", "5", "6", "7",
                                         "8", "9"}

\* the names of TestGetClusterName and the unset "cluster_name"
Unset == <<>>
Laika == <<"l", "a", "i", "k", "a">>
Youri == <<"y", "o", "u", "r", "i">>
Capital == <<"C", "a", "p", "i", "t", "a", "l">>
WithUnderscore == <<"w", "i", "t", "h", "_", "u", "n", "d", "e", "r", "s", "c",
                    "o", "r", "e">>
TooLongTimesSix ==
    LET toolong == <<"t", "o", "o", "l", "o", "n", "g">>
    IN  toolong \o toolong \o toolong \o toolong \o toolong \o toolong

ConfigNames == {Unset, Laika, Youri, Capital, WithUnderscore, TooLongTimesSix}

\* ProviderCatalog, and what a provider answers: an error, no name, or the
\* name of the cluster it runs in
ProviderCatalog == {"gce", "azure", "ec2"}

DiscoveredName(cloudProvider) == <<"o", "n", "-">> \o <<cloudProvider>>

Answers(cloudProvider) ==
    { [clusterName |-> Unset, err |-> TRUE],
      [clusterName |-> Unset, err |-> FALSE],
      [clusterName |-> DiscoveredName(cloudProvider), err |-> FALSE] }

\* defaultClusterNameData and the data object a caller makes for itself
DataObjects == {"defaultClusterNameData", "freshData"}

newClusterNameData == [clusterName |-> Unset, initDone |-> FALSE, mutex |-> "free"]

\* the goroutines that call getClusterName and resetClusterName
Goroutines == {"g1", "g2"}

\* a goroutine's place: pos is "idle" outside the functions, "Lock" before
\* data.mutex.Lock(), "locked" after it, "Unlock" before the deferred Unlock;
\* ret is what the getClusterName it is in returns
Doing(pos, op, d, ret) == [pos |-> pos, op |-> op, data |-> d, ret |-> ret]

\* nothing read yet: the times the setting was read and the providers were
\* called since the object was made or reset, and the name computed then
NothingConsulted ==
    [config |-> 0, providers |-> [p \in ProviderCatalog |-> 0], name |-> Unset]

\* a nil *IPTranslation
NilPointer == 0

\* the initial values of what the tracker's handlers leave alone: no object
\* allocated, no pass counted, the package clustername initialised
Untouched ==
    /\ heap = <<>>
    /\ result = NilPointer
    /\ window = [full |-> FALSE, passes |-> 0]
    /\ clusterNameData = [d \in DataObjects |-> newClusterNameData]
    /\ config = Unset
    /\ goroutines = [g \in Goroutines |-> Doing("idle", "none", "none", Unset)]
    /\ consulted = [d \in DataObjects |-> NothingConsulted]

\* The contexts that call the handlers once the tracker runs: the dispatch
\* goroutines of the two handles, the goroutine of run and a caller of the
\* public methods
Contexts == {"nfct", "nfctDel", "run", "api"}

\* a context's place: pos is "idle" outside the handlers, "Lock" before
\* ctr.Lock(), "critical" between Lock and the end of the handler's work on
\* the maps, "Unlock" before ctr.Unlock(); op and arg are the handler and its
\* argument
Position(pos, op, arg) == [pos |-> pos, op |-> op, arg |-> arg]

Idle == Position("idle", "none", NoCon)

\* the engine once NewConntracker has handed the tracker to its caller
Constructed ==
    /\ nfct = "open"
    /\ nfctDel = "open"
    /\ compactTicker = [state |-> "running", C |-> 0]
    /\ exceededSizeLogLimit = "open"
    /\ hooks = {"register", "unregister"}
    /\ runStarted = TRUE
    /\ pc = "done"
    /\ caller = "tracker"
    /\ crashed = FALSE
    /\ statsCall = <<>>
    /\ mutex = "free"
    /\ at = [self \in Contexts |-> Idle]
    /\ Untouched

Init ==
    /\ Constructed
    /\ maxShortLivedBuffer \in DeleteBufferSizes
    /\ maxStateSize \in MaxStateSizes
    /\ now \in StartTimes
    /\ \E ipv4, ipv6 \in Dumps :
          LET gen == getNthGeneration(generationLength, now, 3)
          IN  state = loadInitialState(loadInitialState(EmptyMap, ipv4, gen), ipv6, gen)
    /\ shortLivedBuffer = EmptyMap
    /\ stats = [gets |-> 0, registers |-> 0, unregisters |-> 0, expiresTotal |-> 0]
    /\ last = NoOp("init")
    /\ destroyed = <<>>

-----------------------------------------------------------------------------
(* Operations *)

\* the operations counted so far; the model stops counting at MaxOps
Counted == stats.gets + stats.registers + stats.unregisters + stats.expiresTotal

\* the *IPTranslation GetTranslationForConn hands back for key k
GetResult(k) ==
    IF k \notin DOMAIN state
    THEN IF k \in DOMAIN shortLivedBuffer THEN shortLivedBuffer[k] ELSE NilTranslation
    ELSE state[k].IPTranslation

\* mutant: a hit hands the translation back and leaves the stamp alone
GetTranslationForConn_NoRefresh(k) ==
    /\ Counted < MaxOps
    /\ state' = state
    /\ stats' = [stats EXCEPT !.gets = @ + 1]
    /\ last' = Op("get", NoCon, k, GetResult(k), FALSE,
                   IF last.op = "unregister" /\ TrackedEvent(last.con)
                      /\ EventKey(last.con) = k
                   THEN <<last>> ELSE <<>>)
    /\ UNCHANGED <<shortLivedBuffer, maxShortLivedBuffer, maxStateSize, now,
                   destroyed>>

\* mutant: a translation found in the buffer is taken out of it
GetTranslationForConn_Consume(k) ==
    /\ Counted < MaxOps
    /\ state' = IF k \in DOMAIN state
                THEN [state EXCEPT ![k].expGeneration =
                          getNthGeneration(generationLength, now, 3)]
                ELSE state
    /\ shortLivedBuffer' = IF k \in DOMAIN state THEN shortLivedBuffer
                           ELSE MapDelete(shortLivedBuffer, k)
    /\ stats' = [stats EXCEPT !.gets = @ + 1]
    /\ last' = Op("get", NoCon, k, GetResult(k), FALSE,
                   IF last.op = "unregister" /\ TrackedEvent(last.con)
                      /\ EventKey(last.con) = k
                   THEN <<last>> ELSE <<>>)
    /\ UNCHANGED <<maxShortLivedBuffer, maxStateSize, now, destroyed>>

GetTranslationForConn(k) ==
    /\ Counted < MaxOps
    /\ state' = IF k \in DOMAIN state
                THEN [state EXCEPT ![k].expGeneration =
                          getNthGeneration(generationLength, now, 3)]
                ELSE state
    /\ stats' = [stats EXCEPT !.gets = @ + 1]
    /\ last' = Op("get", NoCon, k, GetResult(k), FALSE,
                   IF last.op = "unregister" /\ TrackedEvent(last.con)
                      /\ EventKey(last.con) = k
                   THEN <<last>> ELSE <<>>)
    /\ UNCHANGED <<shortLivedBuffer, maxShortLivedBuffer, maxStateSize, now,
                   destroyed>>

\* mutant: the buffer is left as it is
ClearShortLived_KeepsBuffer ==
    /\ shortLivedBuffer' = shortLivedBuffer
    /\ last' = Op("clear", NoCon, NoKey, NilTranslation, FALSE,
                   IF last.op = "get" /\ Len(last.prev) = 1
                   THEN <<last>> ELSE <<>>)
    /\ destroyed' = <<>>
    /\ UNCHANGED <<state, maxShortLivedBuffer, maxStateSize, stats, now>>

ClearShortLived ==
    /\ shortLivedBuffer' = EmptyMap
    /\ last' = Op("clear", NoCon, NoKey, NilTranslation, FALSE,
                   IF last.op = "get" /\ Len(last.prev) = 1
                   THEN <<last>> ELSE <<>>)
    /\ destroyed' = <<>>
    /\ UNCHANGED <<state, maxShortLivedBuffer, maxStateSize, stats, now>>

\* mutant: a create/update for a key state holds takes the entry out
registerLocked_Toggle(c, key) ==
    IF len(state) >= maxStateSize
    THEN UNCHANGED <<state, stats>>
    ELSE /\ Counted < MaxOps
         /\ state' = IF key \in DOMAIN state
                     THEN MapDelete(state, key)
                     ELSE MapSet(state, key,
                             formatIPTranslation(c,
                                 getNthGeneration(generationLength, now, 3)))
         /\ stats' = [stats EXCEPT !.registers = @ + 1]

\* mutant: the entry is stamped with the current generation
registerLocked_StampNow(c, key) ==
    IF len(state) >= maxStateSize
    THEN UNCHANGED <<state, stats>>
    ELSE /\ Counted < MaxOps
         /\ state' = MapSet(state, key,
                        formatIPTranslation(c,
                            getNthGeneration(generationLength, now, 0)))
         /\ stats' = [stats EXCEPT !.registers = @ + 1]

\* mutant: the size test lets one entry too many in
registerLocked_OverMax(c, key) ==
    IF len(state) > maxStateSize
    THEN UNCHANGED <<state, stats>>
    ELSE /\ Counted < MaxOps
         /\ state' = MapSet(state, key,
                        formatIPTranslation(c,
                            getNthGeneration(generationLength, now, 3)))
         /\ stats' = [stats EXCEPT !.registers = @ + 1]

\* the part of register under the lock: the new state and counter
registerLocked(c, key) ==
    IF len(state) >= maxStateSize
    THEN UNCHANGED <<state, stats>>
    ELSE /\ Counted < MaxOps
         /\ state' = MapSet(state, key,
                        formatIPTranslation(c,
                            getNthGeneration(generationLength, now, 3)))
         /\ stats' = [stats EXCEPT !.registers = @ + 1]

\* the key a callback makes of its entry, none when it returns before
KeyOf(c) == IF isNAT(c) THEN formatKey(c).k ELSE NoKey

register(c) ==
    /\ IF ~isNAT(c) \/ ~formatKey(c).ok
       THEN UNCHANGED <<state, stats>>
       ELSE registerLocked(c, formatKey(c).k)
    /\ last' = Op("register", c, KeyOf(c), NilTranslation,
                   len(state) < maxStateSize, <<>>)
    /\ UNCHANGED <<shortLivedBuffer, maxShortLivedBuffer, maxStateSize, now, destroyed>>

\* mutant: the size test lets one entry too many in
unregisterLocked_OffByOne(key) ==
    /\ Counted < MaxOps
    /\ state' = MapDelete(state, key)
    /\ shortLivedBuffer' =
          IF len(shortLivedBuffer) <= maxShortLivedBuffer /\ key \in DOMAIN state
          THEN MapSet(shortLivedBuffer, key, state[key].IPTranslation)
          ELSE shortLivedBuffer
    /\ stats' = [stats EXCEPT !.unregisters = @ + 1]

\* mutant: the entry is copied to the buffer and not deleted from state
unregisterLocked_NoDelete(key) ==
    /\ Counted < MaxOps
    /\ state' = state
    /\ shortLivedBuffer' =
          IF len(shortLivedBuffer) < maxShortLivedBuffer /\ key \in DOMAIN state
          THEN MapSet(shortLivedBuffer, key, state[key].IPTranslation)
          ELSE shortLivedBuffer
    /\ stats' = [stats EXCEPT !.unregisters = @ + 1]

\* mutant: the translation is read after the delete, and nil is stored
unregisterLocked_ReadAfterDelete(key) ==
    /\ Counted < MaxOps
    /\ state' = MapDelete(state, key)
    /\ shortLivedBuffer' =
          IF len(shortLivedBuffer) < maxShortLivedBuffer /\ key \in DOMAIN state
          THEN MapSet(shortLivedBuffer, key, NilTranslation)
          ELSE shortLivedBuffer
    /\ stats' = [stats EXCEPT !.unregisters = @ + 1]

\* mutant: a full buffer is started afresh with the new entry
unregisterLocked_Reuse(key) ==
    /\ Counted < MaxOps
    /\ state' = MapDelete(state, key)
    /\ shortLivedBuffer' =
          IF key \notin DOMAIN state THEN shortLivedBuffer
          ELSE IF len(shortLivedBuffer) < maxShortLivedBuffer
          THEN MapSet(shortLivedBuffer, key, state[key].IPTranslation)
          ELSE MapSet(EmptyMap, key, state[key].IPTranslation)
    /\ stats' = [stats EXCEPT !.unregisters = @ + 1]

\* mutant: with a full buffer the entry stays in state
unregisterLocked_KeepsOnFull(key) ==
    /\ Counted < MaxOps
    /\ state' = IF len(shortLivedBuffer) < maxShortLivedBuffer
                THEN MapDelete(state, key) ELSE state
    /\ shortLivedBuffer' =
          IF len(shortLivedBuffer) < maxShortLivedBuffer /\ key \in DOMAIN state
          THEN MapSet(shortLivedBuffer, key, state[key].IPTranslation)
          ELSE shortLivedBuffer
    /\ stats' = [stats EXCEPT !.unregisters = @ + 1]

\* mutant: the buffer is written whether or not state held the key
unregisterLocked_NoOkTest(key) ==
    /\ Counted < MaxOps
    /\ state' = MapDelete(state, key)
    /\ shortLivedBuffer' =
          IF len(shortLivedBuffer) < maxShortLivedBuffer
          THEN MapSet(shortLivedBuffer, key, Tracked(key))
          ELSE shortLivedBuffer
    /\ stats' = [stats EXCEPT !.unregisters = @ + 1]

\* the part of unregister under the lock
unregisterLocked(key) ==
    /\ Counted < MaxOps
    /\ state' = MapDelete(state, key)
    /\ shortLivedBuffer' =
          IF len(shortLivedBuffer) < maxShortLivedBuffer /\ key \in DOMAIN state
          THEN MapSet(shortLivedBuffer, key, state[key].IPTranslation)
          ELSE shortLivedBuffer
    /\ stats' = [stats EXCEPT !.unregisters = @ + 1]

unregister(c) ==
    /\ IF ~isNAT(c) \/ ~formatKey(c).ok
       THEN UNCHANGED <<state, shortLivedBuffer, stats, destroyed>>
       ELSE LET key == formatKey(c).k
            IN  /\ unregisterLocked(key)
                /\ destroyed' =
                      IF key \notin DOMAIN state THEN destroyed
                      ELSE IF \E i \in 1..Len(destroyed) :
                                   destroyed[i].key \in {key, NoKey}
                           THEN NotDistinct
                           ELSE Append(destroyed,
                                       [key |-> key, tr |-> state[key].IPTranslation])
    /\ last' = Op("unregister", c, KeyOf(c), Tracked(KeyOf(c)),
                   len(shortLivedBuffer) < maxShortLivedBuffer,
                   IF /\ last.op = "register" /\ TrackedEvent(last.con)
                      /\ TrackedEvent(c) /\ EventKey(last.con) = EventKey(c)
                   THEN <<last>> ELSE <<>>)
    /\ UNCHANGED <<maxShortLivedBuffer, maxStateSize, now>>

\* mutant: every entry whose stamp is not above the current generation goes
compact_LessEq ==
    LET gen == getCurrentGeneration(generationLength, now)
        copied == { k \in DOMAIN state : state[k].expGeneration > gen }
    IN  /\ Counted + (len(state) - Cardinality(copied)) <= MaxOps
        /\ state' = [k \in copied |-> state[k]]
        /\ stats' = [stats EXCEPT !.expiresTotal = @ + (len(state) - Cardinality(copied))]
        /\ last' = NoOp("compact")
        /\ UNCHANGED <<shortLivedBuffer, maxShortLivedBuffer, maxStateSize, now,
                       destroyed>>

\* mutant: the pass takes out the entries of the generation before
compact_PreviousGeneration ==
    LET gen == getNthGeneration(generationLength, now, 0 - 1)
        copied == { k \in DOMAIN state : state[k].expGeneration # gen }
    IN  /\ Counted + (len(state) - Cardinality(copied)) <= MaxOps
        /\ state' = [k \in copied |-> state[k]]
        /\ stats' = [stats EXCEPT !.expiresTotal = @ + (len(state) - Cardinality(copied))]
        /\ last' = NoOp("compact")
        /\ UNCHANGED <<shortLivedBuffer, maxShortLivedBuffer, maxStateSize, now,
                       destroyed>>

compact ==
    LET gen == getCurrentGeneration(generationLength, now)
        copied == { k \in DOMAIN state : state[k].expGeneration # gen }
    IN  /\ Counted + (len(state) - Cardinality(copied)) <= MaxOps
        /\ state' = [k \in copied |-> state[k]]
        /\ stats' = [stats EXCEPT !.expiresTotal = @ + (len(state) - Cardinality(copied))]
        /\ last' = NoOp("compact")
        /\ UNCHANGED <<shortLivedBuffer, maxShortLivedBuffer, maxStateSize, now,
                       destroyed>>

\* the clock moves on by one generation
Tick ==
    /\ \A start \in StartTimes :
          now < start + MaxTicks * generationLength
    /\ now' = now + generationLength
    /\ last' = NoOp("tick")
    /\ UNCHANGED <<state, shortLivedBuffer, maxShortLivedBuffer, maxStateSize, stats,
                   destroyed>>

\* The constructed tracker at work on well-formed entries: the engine stays
\* as it is
Next ==
    \/ \E k \in LookupKeys : GetTranslationForConn(k) /\ UNCHANGED <<engine, locking, outside>>
    \/ ClearShortLived /\ UNCHANGED <<engine, locking, outside>>
    \/ \E c \in Cons : register(c) /\ UNCHANGED <<engine, locking, outside>>
    \/ \E c \in Cons : unregister(c) /\ UNCHANGED <<engine, locking, outside>>
    \/ compact /\ UNCHANGED <<engine, locking, outside>>
    \/ Tick /\ UNCHANGED <<engine, locking, outside>>

Spec == Init /\ [][Next]_vars

\* A tracker constructed one generation earlier, so that the stamps it gives
\* in its first generation are the last ones below the 8-bit wrap
WrapGenerations == {252}

InitWrap ==
    /\ Constructed
    /\ maxShortLivedBuffer = 1
    /\ maxStateSize = 2
    /\ now \in { g * generationLength : g \in WrapGenerations }
    /\ \E ipv4, ipv6 \in Dumps :
          LET gen == getNthGeneration(generationLength, now, 3)
          IN  state = loadInitialState(loadInitialState(EmptyMap, ipv4, gen), ipv6, gen)
    /\ shortLivedBuffer = EmptyMap
    /\ stats = [gets |-> 0, registers |-> 0, unregisters |-> 0, expiresTotal |-> 0]
    /\ last = NoOp("init")
    /\ destroyed = <<>>

SpecWrap == InitWrap /\ [][Next]_vars

-----------------------------------------------------------------------------
(* NewConntracker, the callbacks as the kernel's dispatch goroutines run     *)
(* them, GetStats and Close.  NewConntracker runs newConntrackerOnce in a    *)
(* goroutine and waits for it or for initializationTimeout; each call that   *)
(* can fail, fails or succeeds.                                              *)

\* a well-formed NAT entry and entries with a field missing
GoodCon == Con(IPA16, IPN, 6)
NoOrigin == [GoodCon EXCEPT !.Origin = NilPtr]
NoReplyPort == [GoodCon EXCEPT !.Reply.Proto.DstPort = NilNumber]
NoOriginSrc == [GoodCon EXCEPT !.Origin.Src = NilIP]
NoNumber == [GoodCon EXCEPT !.Origin.Proto.Number = NilNumber]
NoReplySrc == [GoodCon EXCEPT !.Reply.Src = NilIP, !.Reply.Dst = IPB]
NoOriginDst == [GoodCon EXCEPT !.Origin.Dst = NilIP, !.Reply.Dst = IPB]

LifeCons == {GoodCon, NoOrigin, NoReplyPort, NoOriginSrc, NoNumber, NoReplySrc,
             NoOriginDst}

LifeDumps == {<<>>, <<GoodCon>>, <<NoOrigin>>, <<NoOriginSrc>>}

LifeKeys == {EventKey(GoodCon)}

\* the arguments NewConntracker is called with
LifeDeleteBufferSizes == {0, 1}
LifeMaxStateSizes == {1}

\* a step of the construction: its name, whether the call it made succeeded
\* and the sessions a dump returned
Stage(op, ok, sessions) == [op |-> op, ok |-> ok, sessions |-> sessions]

InitLife ==
    /\ maxShortLivedBuffer \in LifeDeleteBufferSizes
    /\ maxStateSize \in LifeMaxStateSizes
    /\ now \in StartTimes
    /\ state = EmptyMap
    /\ shortLivedBuffer = EmptyMap
    /\ stats = [gets |-> 0, registers |-> 0, unregisters |-> 0, expiresTotal |-> 0]
    /\ last = NoOp("init")
    /\ destroyed = <<>>
    /\ nfct = "nil"
    /\ nfctDel = "nil"
    /\ compactTicker = [state |-> "nil", C |-> 0]
    /\ exceededSizeLogLimit = "nil"
    /\ hooks = {}
    /\ runStarted = FALSE
    /\ pc = "start"
    /\ caller = "waiting"
    /\ crashed = FALSE
    /\ statsCall = <<>>
    /\ mutex = "free"
    /\ at = [self \in Contexts |-> Idle]
    /\ Untouched

\* newConntrackerOnce refuses a deleteBufferSize that is not positive
checkDeleteBufferSize ==
    /\ ~crashed
    /\ pc = "start"
    /\ pc' = IF maxShortLivedBuffer <= 0 THEN "sendErr" ELSE "openNfct"
    /\ last' = Stage("checkDeleteBufferSize", maxShortLivedBuffer > 0, <<>>)
    /\ UNCHANGED <<state, shortLivedBuffer, maxShortLivedBuffer, maxStateSize, stats,
                   now, destroyed, nfct, nfctDel, compactTicker,
                   exceededSizeLogLimit, hooks, runStarted, caller, crashed,
                   statsCall>>

openNfct ==
    /\ ~crashed
    /\ pc = "openNfct"
    /\ \E ok \in BOOLEAN :
          /\ nfct' = IF ok THEN "open" ELSE nfct
          /\ pc' = IF ok THEN "openNfctDel" ELSE "sendErr"
          /\ last' = Stage("openNfct", ok, <<>>)
    /\ UNCHANGED <<state, shortLivedBuffer, maxShortLivedBuffer, maxStateSize, stats,
                   now, destroyed, nfctDel, compactTicker, exceededSizeLogLimit,
                   hooks, runStarted, caller, crashed, statsCall>>

\* the second handle is opened and, when that worked, the realConntracker is
\* made, with its ticker and its log-rate limiter
openNfctDel ==
    /\ ~crashed
    /\ pc = "openNfctDel"
    /\ \E ok \in BOOLEAN :
          /\ nfctDel' = IF ok THEN "open" ELSE nfctDel
          /\ compactTicker' = IF ok THEN [state |-> "running", C |-> 0]
                              ELSE compactTicker
          /\ exceededSizeLogLimit' = IF ok THEN "open" ELSE exceededSizeLogLimit
          /\ pc' = IF ok THEN "dumpIPv4" ELSE "sendErr"
          /\ last' = Stage("openNfctDel", ok, <<>>)
    /\ UNCHANGED <<state, shortLivedBuffer, maxShortLivedBuffer, maxStateSize, stats,
                   now, destroyed, nfct, hooks, runStarted, caller, crashed,
                   statsCall>>

\* loadInitialState dereferences a nil pointer of one of the sessions
loadInitialState_NilDeref(sessions) ==
    \E i \in 1..Len(sessions) :
       LET c == sessions[i]
       IN  \/ isNAT_NilDeref(c)
           \/ /\ isNAT(c)
              /\ \/ formatKey_NilDeref(c)
                 \/ formatKey(c).ok /\ formatIPTranslation_NilDeref(c)

\* the part of the two dump stages that seeds state
seed(sessions) ==
    IF loadInitialState_NilDeref(sessions)
    THEN crashed' = TRUE /\ state' = state
    ELSE /\ crashed' = crashed
         /\ state' = loadInitialState(state, sessions,
                         getNthGeneration(generationLength, now, 3))

\* mutant: a failed IPv4 dump is logged and construction goes on
dumpIPv4_Tolerated ==
    /\ ~crashed
    /\ pc = "dumpIPv4"
    /\ \E ok \in BOOLEAN, sessions \in LifeDumps :
          /\ ~ok => sessions = <<>>
          /\ seed(sessions)
          /\ pc' = "dumpIPv6"
          /\ last' = Stage("dumpIPv4", ok, sessions)
    /\ UNCHANGED <<shortLivedBuffer, maxShortLivedBuffer, maxStateSize, stats, now,
                   destroyed, nfct, nfctDel, compactTicker, exceededSizeLogLimit,
                   hooks, runStarted, caller, statsCall>>

dumpIPv4 ==
    /\ ~crashed
    /\ pc = "dumpIPv4"
    /\ \E ok \in BOOLEAN, sessions \in LifeDumps :
          /\ ~ok => sessions = <<>>
          /\ IF ok THEN seed(sessions) /\ pc' = "dumpIPv6"
                   ELSE UNCHANGED <<state, crashed>> /\ pc' = "sendErr"
          /\ last' = Stage("dumpIPv4", ok, sessions)
    /\ UNCHANGED <<shortLivedBuffer, maxShortLivedBuffer, maxStateSize, stats, now,
                   destroyed, nfct, nfctDel, compactTicker, exceededSizeLogLimit,
                   hooks, runStarted, caller, statsCall>>

\* a failed IPv6 dump is logged, and its sessions, none, are loaded
dumpIPv6 ==
    /\ ~crashed
    /\ pc = "dumpIPv6"
    /\ \E ok \in BOOLEAN, sessions \in LifeDumps :
          /\ ~ok => sessions = <<>>
          /\ seed(sessions)
          /\ pc' = "goRun"
          /\ last' = [Stage("dumpIPv6", ok, sessions) EXCEPT !.sessions =
                          <<last.sessions, sessions>>]
    /\ UNCHANGED <<shortLivedBuffer, maxShortLivedBuffer, maxStateSize, stats, now,
                   destroyed, nfct, nfctDel, compactTicker, exceededSizeLogLimit,
                   hooks, runStarted, caller, statsCall>>

goRun ==
    /\ ~crashed
    /\ pc = "goRun"
    /\ runStarted' = TRUE
    /\ pc' = "registerHook"
    /\ UNCHANGED <<data, nfct, nfctDel, compactTicker, exceededSizeLogLimit, hooks,
                   caller, crashed, statsCall>>

registerHook ==
    /\ ~crashed
    /\ pc = "registerHook"
    /\ hooks' = hooks \cup {"register"}
    /\ pc' = "unregisterHook"
    /\ UNCHANGED <<data, nfct, nfctDel, compactTicker, exceededSizeLogLimit,
                   runStarted, caller, crashed, statsCall>>

unregisterHook ==
    /\ ~crashed
    /\ pc = "unregisterHook"
    /\ hooks' = hooks \cup {"unregister"}
    /\ pc' = "sendOk"
    /\ UNCHANGED <<data, nfct, nfctDel, compactTicker, exceededSizeLogLimit,
                   runStarted, caller, crashed, statsCall>>

\* done <- struct{}{} meets <-done: NewConntracker returns what
\* newConntrackerOnce returned
sendDone ==
    /\ ~crashed
    /\ pc \in {"sendOk", "sendErr"}
    /\ caller = "waiting"
    /\ caller' = IF pc = "sendOk" THEN "tracker" ELSE "error"
    /\ pc' = "done"
    /\ UNCHANGED <<data, nfct, nfctDel, compactTicker, exceededSizeLogLimit, hooks,
                   runStarted, crashed, statsCall>>

\* time.After(initializationTimeout) fires first
timeAfter ==
    /\ ~crashed
    /\ caller = "waiting"
    /\ caller' = "timeout"
    /\ UNCHANGED <<data, nfct, nfctDel, compactTicker, exceededSizeLogLimit, hooks,
                   runStarted, pc, crashed, statsCall>>

\* the callbacks as the handles' dispatch goroutines call them:
\* a nil pointer dereferenced in the callback ends the process
register_NilDeref(c) ==
    \/ isNAT_NilDeref(c)
    \/ /\ isNAT(c)
       /\ \/ formatKey_NilDeref(c)
          \/ /\ formatKey(c).ok
             /\ len(state) < maxStateSize
             /\ formatIPTranslation_NilDeref(c)

unregister_NilDeref(c) ==
    \/ isNAT_NilDeref(c)
    \/ isNAT(c) /\ formatKey_NilDeref(c)

panic(op, c) ==
    /\ crashed' = TRUE
    /\ last' = Op(op, c, NoKey, NilTranslation, FALSE, <<>>)
    /\ UNCHANGED <<state, shortLivedBuffer, maxShortLivedBuffer, maxStateSize, stats,
                   now, destroyed, nfct, nfctDel, compactTicker,
                   exceededSizeLogLimit, hooks, runStarted, pc, caller, statsCall>>

registerCallback(c) ==
    /\ ~crashed
    /\ "register" \in hooks
    /\ nfct = "open"
    /\ IF register_NilDeref(c) THEN panic("register", c)
       ELSE register(c) /\ UNCHANGED engine

unregisterCallback(c) ==
    /\ ~crashed
    /\ "unregister" \in hooks
    /\ nfctDel = "open"
    /\ IF unregister_NilDeref(c) THEN panic("unregister", c)
       ELSE unregister(c) /\ UNCHANGED engine

\* the ticker sends a tick unless one is waiting in its channel
tick ==
    /\ ~crashed
    /\ compactTicker.state = "running"
    /\ compactTicker.C = 0
    /\ compactTicker' = [compactTicker EXCEPT !.C = 1]
    /\ UNCHANGED <<data, nfct, nfctDel, exceededSizeLogLimit, hooks, runStarted, pc,
                   caller, crashed, statsCall>>

\* run takes the tick that waits in the channel and compacts
run ==
    /\ ~crashed
    /\ runStarted
    /\ compactTicker.C = 1
    /\ compactTicker' = [compactTicker EXCEPT !.C = 0]
    /\ compact
    /\ UNCHANGED <<nfct, nfctDel, exceededSizeLogLimit, hooks, runStarted, pc,
                   caller, crashed, statsCall>>

\* the time a handler takes, in the unit of the clock
HandlerTime == 0

\* the accumulated times of the stats
getTimeTotal == stats.gets * HandlerTime
registersTotalTime == stats.registers * HandlerTime
unregistersTotalTime == stats.unregisters * HandlerTime

\* the first part of GetStats, under the lock
GetStats_Sizes ==
    /\ ~crashed
    /\ caller = "tracker"
    /\ statsCall = <<>>
    /\ statsCall' = <<[size |-> len(state), stBufSize |-> len(shortLivedBuffer)]>>
    /\ UNCHANGED <<data, nfct, nfctDel, compactTicker, exceededSizeLogLimit, hooks,
                   runStarted, pc, caller, crashed>>

\* the map GetStats returns, the sizes read before
GetStats_Map(size, stBufSize) ==
    LET m == ("state_size" :> size) @@ ("short_term_buffer_size" :> stBufSize)
               @@ ("expires" :> stats.expiresTotal)
        g == IF stats.gets # 0
             THEN ("gets_total" :> stats.gets)
                    @@ ("nanoseconds_per_get" :> (getTimeTotal \div stats.gets))
             ELSE EmptyMap
        r == IF stats.registers # 0
             THEN ("registers_total" :> stats.registers)
                    @@ ("nanoseconds_per_register" :>
                           (registersTotalTime \div stats.registers))
             ELSE EmptyMap
        u == IF stats.unregisters # 0
             THEN ("unregisters_total" :> stats.unregisters)
                    @@ ("nanoseconds_per_unregister" :>
                           (unregistersTotalTime \div stats.unregisters))
             ELSE EmptyMap
    IN  m @@ g @@ r @@ u

\* the second part of GetStats, the counters read without the lock
GetStats ==
    /\ ~crashed
    /\ statsCall # <<>>
    /\ statsCall' = <<>>
    /\ last' = [op |-> "GetStats",
                m |-> GetStats_Map(statsCall[1].size, statsCall[1].stBufSize),
                size |-> statsCall[1].size,
                stBufSize |-> statsCall[1].stBufSize]
    /\ UNCHANGED <<state, shortLivedBuffer, maxShortLivedBuffer, maxStateSize, stats,
                   now, destroyed, nfct, nfctDel, compactTicker,
                   exceededSizeLogLimit, hooks, runStarted, pc, caller, crashed>>

Close ==
    /\ ~crashed
    /\ caller = "tracker"
    /\ compactTicker' = [compactTicker EXCEPT !.state = "stopped"]
    /\ exceededSizeLogLimit' = "closed"
    /\ last' = NoOp("Close")
    /\ UNCHANGED <<state, shortLivedBuffer, maxShortLivedBuffer, maxStateSize, stats,
                   now, destroyed, nfct, nfctDel, hooks, runStarted, pc, caller,
                   crashed, statsCall>>

NextLife ==
    \/ checkDeleteBufferSize /\ UNCHANGED <<locking, outside>>
    \/ openNfct /\ UNCHANGED <<locking, outside>>
    \/ openNfctDel /\ UNCHANGED <<locking, outside>>
    \/ dumpIPv4 /\ UNCHANGED <<locking, outside>>
    \/ dumpIPv6 /\ UNCHANGED <<locking, outside>>
    \/ goRun /\ UNCHANGED <<locking, outside>>
    \/ registerHook /\ UNCHANGED <<locking, outside>>
    \/ unregisterHook /\ UNCHANGED <<locking, outside>>
    \/ sendDone /\ UNCHANGED <<locking, outside>>
    \/ timeAfter /\ UNCHANGED <<locking, outside>>
    \/ \E c \in LifeCons : registerCallback(c) /\ UNCHANGED <<locking, outside>>
    \/ \E c \in LifeCons : unregisterCallback(c) /\ UNCHANGED <<locking, outside>>
    \/ tick /\ UNCHANGED <<locking, outside>>
    \/ run /\ UNCHANGED <<locking, outside>>
    \/ \E k \in LifeKeys :
          ~crashed /\ caller = "tracker" /\ GetTranslationForConn(k)
             /\ UNCHANGED <<engine, locking, outside>>
    \/ ~crashed /\ caller = "tracker" /\ ClearShortLived
          /\ UNCHANGED <<engine, locking, outside>>
    \/ GetStats_Sizes /\ UNCHANGED <<locking, outside>>
    \/ GetStats /\ UNCHANGED <<locking, outside>>
    \/ Close /\ UNCHANGED <<locking, outside>>

SpecLife == InitLife /\ [][NextLife]_vars

-----------------------------------------------------------------------------
(* The handlers at the grain of the mutex: a context calls a handler, takes  *)
(* the mutex, works on the maps, and gives the mutex back.  Construction is  *)
(* as above; loadInitialState works on state without the mutex.              *)

LockCons == {GoodCon}

\* the handlers that are between their call and their return
InFlight == Cardinality({ self \in Contexts : at[self].pos # "idle" })

\* the kernel delivers a NAT entry to register or unregister: the callback
\* passes isNAT and formatKey and comes to ctr.Lock()
callback(self, hook, handle, c) ==
    /\ ~crashed
    /\ hook \in hooks
    /\ handle = "open"
    /\ at[self] = Idle
    /\ isNAT(c) /\ formatKey(c).ok
    /\ Counted + InFlight < MaxOps
    /\ at' = [at EXCEPT ![self] = Position("Lock", hook, c)]
    /\ UNCHANGED <<data, engine, mutex>>

\* run takes the tick that waits in the channel and calls compact
runCompact ==
    /\ ~crashed
    /\ runStarted
    /\ compactTicker.C = 1
    /\ at["run"] = Idle
    /\ Counted + InFlight < MaxOps
    /\ compactTicker' = [compactTicker EXCEPT !.C = 0]
    /\ at' = [at EXCEPT !["run"] = Position("Lock", "compact", NoCon)]
    /\ UNCHANGED <<data, nfct, nfctDel, exceededSizeLogLimit, hooks, runStarted, pc,
                   caller, crashed, statsCall, mutex>>

\* the owner of the tracker calls one of its methods that work on the maps
call(op, arg) ==
    /\ ~crashed
    /\ caller = "tracker"
    /\ at["api"] = Idle
    /\ Counted + InFlight < MaxOps
    /\ at' = [at EXCEPT !["api"] = Position("Lock", op, arg)]
    /\ UNCHANGED <<data, engine, mutex>>

\* mutant: Lock returns whether or not the mutex is held
Lock_NoWait(self) ==
    /\ ~crashed
    /\ at[self].pos = "Lock"
    /\ mutex' = self
    /\ at' = [at EXCEPT ![self].pos = "critical"]
    /\ UNCHANGED <<data, engine>>

\* ctr.Lock() returns once the mutex is free
Lock(self) ==
    /\ ~crashed
    /\ at[self].pos = "Lock"
    /\ mutex = "free"
    /\ mutex' = self
    /\ at' = [at EXCEPT ![self].pos = "critical"]
    /\ UNCHANGED <<data, engine>>

\* the handler's work on state and shortLivedBuffer
critical(self) ==
    /\ ~crashed
    /\ at[self].pos = "critical"
    /\ at' = [at EXCEPT ![self].pos = "Unlock"]
    /\ mutex' = mutex
    /\ CASE at[self].op = "register" -> register(at[self].arg) /\ UNCHANGED engine
         [] at[self].op = "unregister" -> unregister(at[self].arg) /\ UNCHANGED engine
         [] at[self].op = "compact" -> compact /\ UNCHANGED engine
         [] at[self].op = "GetTranslationForConn" ->
               GetTranslationForConn(at[self].arg) /\ UNCHANGED engine
         [] at[self].op = "ClearShortLived" -> ClearShortLived /\ UNCHANGED engine
         [] at[self].op = "GetStats" -> GetStats_Sizes

\* ctr.Unlock(), deferred to the return or, in GetStats, before the counters
\* are read
Unlock(self) ==
    /\ ~crashed
    /\ at[self].pos = "Unlock"
    /\ mutex' = "free"
    /\ at' = [at EXCEPT ![self] = IF at[self].op = "GetStats"
                                  THEN Position("return", "GetStats", NoCon)
                                  ELSE Idle]
    /\ UNCHANGED <<data, engine>>

\* GetStats reads the counters and returns its map
returnStats ==
    /\ at["api"].pos = "return"
    /\ GetStats
    /\ at' = [at EXCEPT !["api"] = Idle]
    /\ mutex' = mutex

NextLock ==
    \/ checkDeleteBufferSize /\ UNCHANGED <<locking, outside>>
    \/ openNfct /\ UNCHANGED <<locking, outside>>
    \/ openNfctDel /\ UNCHANGED <<locking, outside>>
    \/ dumpIPv4 /\ UNCHANGED <<locking, outside>>
    \/ dumpIPv6 /\ UNCHANGED <<locking, outside>>
    \/ goRun /\ UNCHANGED <<locking, outside>>
    \/ registerHook /\ UNCHANGED <<locking, outside>>
    \/ unregisterHook /\ UNCHANGED <<locking, outside>>
    \/ sendDone /\ UNCHANGED <<locking, outside>>
    \/ timeAfter /\ UNCHANGED <<locking, outside>>
    \/ tick /\ UNCHANGED <<locking, outside>>
    \/ \E c \in LockCons : callback("nfct", "register", nfct, c) /\ UNCHANGED outside
    \/ \E c \in LockCons : callback("nfctDel", "unregister", nfctDel, c) /\ UNCHANGED outside
    \/ runCompact /\ UNCHANGED outside
    \/ \E k \in LifeKeys : call("GetTranslationForConn", k) /\ UNCHANGED outside
    \/ call("ClearShortLived", NoCon) /\ UNCHANGED outside
    \/ call("GetStats", NoCon) /\ UNCHANGED outside
    \/ \E self \in Contexts : Lock(self) /\ UNCHANGED outside
    \/ \E self \in Contexts : critical(self) /\ UNCHANGED outside
    \/ \E self \in Contexts : Unlock(self) /\ UNCHANGED outside
    \/ returnStats /\ UNCHANGED outside

SpecLock == InitLife /\ [][NextLock]_vars

-----------------------------------------------------------------------------
(* The tracker with its pointers: connValue embeds *IPTranslation, the      *)
(* buffer holds *IPTranslation and GetTranslationForConn returns            *)
(* *IPTranslation.  State and the buffer hold addresses of the objects in   *)
(* heap, and the caller of a lookup keeps the address it was handed.        *)

\* two NAT flows of host A with one key and different reply tuples, and a
\* flow of host B
AliasCons == {Con(IPA16, IPN, 6), Con(IPA16, IPM16, 6), Con(IPB, IPN, 6)}

AliasKeys == { EventKey(c) : c \in AliasCons }

\* the port a caller writes into the translation it was handed
WrittenPort == 9

InitAlias ==
    /\ Constructed
    /\ maxShortLivedBuffer = 1
    /\ maxStateSize \in MaxStateSizes
    /\ now \in StartTimes
    /\ state = EmptyMap
    /\ shortLivedBuffer = EmptyMap
    /\ stats = [gets |-> 0, registers |-> 0, unregisters |-> 0, expiresTotal |-> 0]
    /\ last = NoOp("init")
    /\ destroyed = <<>>

\* the *IPTranslation the stores hold for key k, state first
PointerOf(k) ==
    IF k \in DOMAIN state THEN state[k].IPTranslation
    ELSE IF k \in DOMAIN shortLivedBuffer THEN shortLivedBuffer[k]
    ELSE NilPointer

\* register: formatIPTranslation makes a new IPTranslation, and state holds
\* its address
registerPointer(c) ==
    /\ isNAT(c) /\ formatKey(c).ok
    /\ IF len(state) >= maxStateSize
       THEN UNCHANGED <<state, stats, heap>>
       ELSE LET v == formatIPTranslation(c, getNthGeneration(generationLength, now, 3))
            IN  /\ Counted < MaxOps
                /\ heap' = Append(heap, v.IPTranslation)
                /\ state' = MapSet(state, formatKey(c).k,
                                [v EXCEPT !.IPTranslation = Len(heap) + 1])
                /\ stats' = [stats EXCEPT !.registers = @ + 1]
    /\ last' = Op("register", c, KeyOf(c), NilTranslation,
                   len(state) < maxStateSize, <<>>)
    /\ UNCHANGED <<shortLivedBuffer, maxShortLivedBuffer, maxStateSize, now,
                   destroyed, result>>

\* the lookup hands the address the store holds to its caller
lookupPointer(k) ==
    /\ GetTranslationForConn(k)
    /\ result' = PointerOf(k)
    /\ heap' = heap

\* the caller writes a field of the IPTranslation it was handed
callerWrites ==
    /\ result # NilPointer
    /\ heap[result].ReplSrcPort # WrittenPort
    /\ heap' = [heap EXCEPT ![result].ReplSrcPort = WrittenPort]
    /\ last' = NoOp("callerWrites")
    /\ UNCHANGED <<state, shortLivedBuffer, maxShortLivedBuffer, maxStateSize, stats,
                   now, destroyed, result>>

NextAlias ==
    \/ \E c \in AliasCons :
          registerPointer(c) /\ UNCHANGED <<engine, locking, window, clustername>>
    \/ \E c \in AliasCons :
          unregister(c) /\ UNCHANGED <<engine, locking, outside>>
    \/ \E k \in AliasKeys :
          lookupPointer(k) /\ UNCHANGED <<engine, locking, window, clustername>>
    \/ ClearShortLived /\ UNCHANGED <<engine, locking, outside>>
    \/ compact /\ UNCHANGED <<engine, locking, outside>>
    \/ callerWrites /\ UNCHANGED <<engine, locking, window, clustername>>

SpecAlias == InitAlias /\ [][NextAlias]_vars

-----------------------------------------------------------------------------
(* The cluster name cache: getClusterName and resetClusterName called by    *)
(* goroutines on the data objects, while the setting changes.  A call is    *)
(* data.mutex.Lock(), the body, and the deferred data.mutex.Unlock().       *)

\* the loop over ProviderCatalog: the name it leaves in data.clusterName
\* and the providers it called, up to the first that answers with a name
RECURSIVE discover(_, _)
discover(order, answers) ==
    IF order = <<>> THEN [clusterName |-> Unset, called |-> {}]
    ELSE LET answer == answers[Head(order)]
         IN  IF ~answer.err /\ answer.clusterName # Unset
             THEN [clusterName |-> answer.clusterName, called |-> {Head(order)}]
             ELSE LET rest == discover(Tail(order), answers)
                  IN  [rest EXCEPT !.called = @ \cup {Head(order)}]

\* the name the setting gives: none when it is unset or not a valid name
fromConfig(name) == IF name # Unset /\ validClusterName(name) THEN name ELSE Unset

\* what one resolution may come to: the name of the setting, no provider
\* called, or what the loop over the providers finds
\* range ProviderCatalog visits the providers in any order, and each
\* provider gives one of its answers
Discoveries ==
    LET orders ==
            { o \in [1..Cardinality(ProviderCatalog) -> ProviderCatalog] :
                 \A i, j \in DOMAIN o : o[i] = o[j] => i = j }
        answerSets ==
            { f \in [ProviderCatalog -> UNION { Answers(p) : p \in ProviderCatalog }] :
                 \A p \in ProviderCatalog : f[p] \in Answers(p) }
    IN  { discover(order, answers) : order \in orders, answers \in answerSets }

Resolutions(name) ==
    IF fromConfig(name) # Unset
    THEN {[clusterName |-> fromConfig(name), called |-> {}]}
    ELSE Discoveries

\* mockConfig.Set("cluster_name", name)
setConfig(name) ==
    /\ name # config
    /\ config' = name
    /\ UNCHANGED <<clusterNameData, goroutines, consulted>>

\* a goroutine calls getClusterName(d) or resetClusterName(d)
callClusterName(g, op, d) ==
    /\ goroutines[g].pos = "idle"
    /\ goroutines' = [goroutines EXCEPT ![g] = Doing("Lock", op, d, Unset)]
    /\ UNCHANGED <<clusterNameData, config, consulted>>

\* data.mutex.Lock()
lockData(g) ==
    /\ goroutines[g].pos = "Lock"
    /\ clusterNameData[goroutines[g].data].mutex = "free"
    /\ clusterNameData' = [clusterNameData EXCEPT ![goroutines[g].data].mutex = g]
    /\ goroutines' = [goroutines EXCEPT ![g].pos = "locked"]
    /\ UNCHANGED <<config, consulted>>

\* mutant: the name is resolved and initDone is left false
getClusterName_NoInitDone(g) ==
    LET d == goroutines[g].data
    IN  /\ goroutines[g].pos = "locked"
        /\ goroutines[g].op = "getClusterName"
        /\ consulted[d].config < MaxConsulted
        /\ \E found \in Resolutions(config) :
                  /\ clusterNameData' =
                        [clusterNameData EXCEPT ![d].clusterName = found.clusterName]
                  /\ consulted' = [consulted EXCEPT ![d] =
                        [config |-> @.config + 1,
                         providers |-> [p \in ProviderCatalog |->
                             @.providers[p] + IF p \in found.called THEN 1 ELSE 0],
                         name |-> found.clusterName]]
                  /\ goroutines' = [goroutines EXCEPT ![g].pos = "Unlock",
                                                      ![g].ret = found.clusterName]
        /\ config' = config

\* the body of getClusterName, the mutex held
getClusterName(g) ==
    LET d == goroutines[g].data
    IN  /\ goroutines[g].pos = "locked"
        /\ goroutines[g].op = "getClusterName"
        /\ IF ~clusterNameData[d].initDone
           THEN /\ consulted[d].config < MaxConsulted
                /\ \E found \in Resolutions(config) :
                          /\ clusterNameData' =
                                [clusterNameData EXCEPT
                                    ![d].clusterName = found.clusterName,
                                    ![d].initDone = TRUE]
                          /\ consulted' = [consulted EXCEPT ![d] =
                                [config |-> @.config + 1,
                                 providers |-> [p \in ProviderCatalog |->
                                     @.providers[p]
                                        + IF p \in found.called THEN 1 ELSE 0],
                                 name |-> found.clusterName]]
                          /\ goroutines' = [goroutines EXCEPT
                                               ![g].pos = "Unlock",
                                               ![g].ret = found.clusterName]
           ELSE /\ goroutines' = [goroutines EXCEPT
                                     ![g].pos = "Unlock",
                                     ![g].ret = clusterNameData[d].clusterName]
                /\ UNCHANGED <<clusterNameData, consulted>>
        /\ config' = config

\* the body of resetClusterName, the mutex held
resetClusterName(g) ==
    LET d == goroutines[g].data
    IN  /\ goroutines[g].pos = "locked"
        /\ goroutines[g].op = "resetClusterName"
        /\ clusterNameData' = [clusterNameData EXCEPT ![d].initDone = FALSE]
        /\ consulted' = [consulted EXCEPT ![d] = NothingConsulted]
        /\ goroutines' = [goroutines EXCEPT ![g].pos = "Unlock"]
        /\ config' = config

\* the deferred data.mutex.Unlock() and the return
unlockData(g) ==
    /\ goroutines[g].pos = "Unlock"
    /\ clusterNameData' = [clusterNameData EXCEPT ![goroutines[g].data].mutex = "free"]
    /\ goroutines' = [goroutines EXCEPT ![g] = Doing("idle", "none", "none", Unset)]
    /\ UNCHANGED <<config, consulted>>

\* the tracker takes no part
elsewhere == <<data, engine, locking, heap, result, window>>

NextCluster ==
    \/ \E name \in ConfigNames : setConfig(name) /\ UNCHANGED elsewhere
    \/ \E g \in Goroutines, d \in DataObjects :
          callClusterName(g, "getClusterName", d) /\ UNCHANGED elsewhere
    \/ \E g \in Goroutines, d \in DataObjects :
          callClusterName(g, "resetClusterName", d) /\ UNCHANGED elsewhere
    \/ \E g \in Goroutines : lockData(g) /\ UNCHANGED elsewhere
    \/ \E g \in Goroutines : getClusterName(g) /\ UNCHANGED elsewhere
    \/ \E g \in Goroutines : resetClusterName(g) /\ UNCHANGED elsewhere
    \/ \E g \in Goroutines : unlockData(g) /\ UNCHANGED elsewhere

\* the package initialised, no tracker made
InitCluster == InitLife /\ maxShortLivedBuffer = 1

SpecCluster == InitCluster /\ [][NextCluster]_vars

-----------------------------------------------------------------------------
(* The tracker by the minute: the clock moves a minute at a time, the       *)
(* ticker made by time.NewTicker(compactInterval) sends a tick every        *)
(* compactInterval minutes from its creation, and run makes its compaction  *)
(* pass before the next minute begins.                                      *)

\* events and lookups come in the first two generations, and the clock runs
\* four generations longer
OpsUntil == 255 * generationLength

TimeKeys == {EventKey(GoodCon)}

\* the constructed tracker, its ticker with the time of its next tick
InitTime ==
    /\ maxShortLivedBuffer = 1
    /\ maxStateSize = 1
    \* the tracker is constructed at any minute of generation 253
    /\ now \in { start + d : start \in StartTimes, d \in 0..(generationLength - 1) }
    /\ \E ipv4 \in {<<>>, <<GoodCon>>} :
          state = loadInitialState(EmptyMap, ipv4,
                                   getNthGeneration(generationLength, now, 3))
    /\ shortLivedBuffer = EmptyMap
    /\ stats = [gets |-> 0, registers |-> 0, unregisters |-> 0, expiresTotal |-> 0]
    /\ last = NoOp("init")
    /\ destroyed = <<>>
    /\ nfct = "open"
    /\ nfctDel = "open"
    /\ compactTicker = [state |-> "running", C |-> 0, when |-> now + compactInterval]
    /\ exceededSizeLogLimit = "open"
    /\ hooks = {"register", "unregister"}
    /\ runStarted = TRUE
    /\ pc = "done"
    /\ caller = "tracker"
    /\ crashed = FALSE
    /\ statsCall = <<>>
    /\ mutex = "free"
    /\ at = [self \in Contexts |-> Idle]
    /\ heap = <<>>
    /\ result = NilPointer
    /\ window = [full |-> now % generationLength = 0, passes |-> 0]
    /\ clusterNameData = [d \in DataObjects |-> newClusterNameData]
    /\ config = Unset
    /\ goroutines = [g \in Goroutines |-> Doing("idle", "none", "none", Unset)]
    /\ consulted = [d \in DataObjects |-> NothingConsulted]

\* mutant: the ticker sends its ticks a minute further apart than a
\* generation lasts
minute_SlowTicker ==
    /\ now < OpsUntil + 4 * generationLength
    /\ compactTicker.C = 0
    /\ now' = now + 1
    /\ compactTicker' = IF now + 1 = compactTicker.when
                        THEN [compactTicker EXCEPT
                                 !.C = 1, !.when = @ + generationLength + 1]
                        ELSE compactTicker
    /\ window' = IF (now + 1) % generationLength = 0
                 THEN [full |-> TRUE, passes |-> 0]
                 ELSE window
    /\ last' = NoOp("minute")
    /\ UNCHANGED <<state, shortLivedBuffer, maxShortLivedBuffer, maxStateSize, stats,
                   destroyed>>

\* a minute passes; at the time of its next tick the ticker sends one and
\* sets the next compactInterval later
minute ==
    /\ now < OpsUntil + 4 * generationLength
    /\ compactTicker.C = 0
    /\ now' = now + 1
    /\ compactTicker' = IF now + 1 = compactTicker.when
                        THEN [compactTicker EXCEPT
                                 !.C = 1, !.when = @ + compactInterval]
                        ELSE compactTicker
    /\ window' = IF (now + 1) % generationLength = 0
                 THEN [full |-> TRUE, passes |-> 0]
                 ELSE window
    /\ last' = NoOp("minute")
    /\ UNCHANGED <<state, shortLivedBuffer, maxShortLivedBuffer, maxStateSize, stats,
                   destroyed>>

\* run takes the tick and makes a compaction pass
pass ==
    /\ run
    /\ window' = [window EXCEPT !.passes = @ + 1]

\* an event or a lookup comes while there is time and count left for it and
\* for the expiry of what state holds
InTime(count) ==
    /\ now < OpsUntil
    /\ compactTicker.C = 0
    /\ Counted + len(state) + count <= MaxOps

\* what the clock and the ticker leave alone
timeless == <<nfct, nfctDel, exceededSizeLogLimit, hooks, runStarted, pc, caller,
              crashed, statsCall, mutex, at, heap, result, clusterNameData, config,
              goroutines, consulted>>

NextTime ==
    \/ minute /\ UNCHANGED timeless
    \/ pass /\ UNCHANGED <<locking, heap, result, clustername>>
    \/ \E c \in {GoodCon} :
          InTime(2) /\ register(c) /\ UNCHANGED <<engine, locking, outside>>
    \/ \E c \in {GoodCon} :
          InTime(1) /\ unregister(c) /\ UNCHANGED <<engine, locking, outside>>
    \/ \E k \in TimeKeys :
          InTime(1) /\ GetTranslationForConn(k)
             /\ UNCHANGED <<engine, locking, outside>>
    \/ InTime(0) /\ ClearShortLived /\ UNCHANGED <<engine, locking, outside>>

\* time passes, and run is scheduled when a tick waits
SpecTime ==
    InitTime /\ [][NextTime]_vars /\ WF_vars(minute /\ UNCHANGED timeless)
        /\ WF_vars(pass /\ UNCHANGED <<locking, heap, result, clustername>>)

-----------------------------------------------------------------------------
(* The claims *)

Both == DOMAIN state \cap DOMAIN shortLivedBuffer

Distinct == destroyed # NotDistinct

\* the place of key k in destroyed, 0 when it is not there
RECURSIVE PlaceFrom(_, _)
PlaceFrom(k, i) ==
    IF i > Len(destroyed) THEN 0
    ELSE IF destroyed[i].key = k THEN i
    ELSE PlaceFrom(k, i + 1)

Place(k) == PlaceFrom(k, 1)

CurrentGeneration == (now \div generationLength) % Uint8

\* C1 (the claim as stated; the seeding from the dumps breaks it): the
\* translation index never holds more than maxStateSize entries.
C1_StateWithinMax == len(state) <= maxStateSize

\* C2: the short-lived buffer never holds more than deleteBufferSize entries,
\* whatever the callbacks, lookups, clears and compaction passes that ran.
C2_ShortLivedWithinMax == len(shortLivedBuffer) <= maxShortLivedBuffer

\* a destroy found its flow in state and a full buffer, and dropped the transfer
C2_Witness ==
    /\ last.op = "unregister"
    /\ TrackedEvent(last.con)
    /\ last.res # NilTranslation
    /\ ~last.room
    /\ len(shortLivedBuffer) = maxShortLivedBuffer

\* C3 (the claim as stated): no key is in both state and shortLivedBuffer.
C3_Original == Both = {}

\* C3 (amended): a key comes to be in both stores only by a create/update that
\* is stored for a key the buffer already holds; and directly after a destroy
\* event for a flow its key is not in state.
C3_BothOnlyByCreate ==
    [][ /\ \A k \in Both' \ Both :
              /\ last'.op = "register"
              /\ TrackedEvent(last'.con)
              /\ EventKey(last'.con) = k
              /\ k \in DOMAIN shortLivedBuffer
              /\ k \notin DOMAIN state
        /\ (last'.op = "unregister" /\ TrackedEvent(last'.con))
              => EventKey(last'.con) \notin DOMAIN state' ]_vars

\* a create was stored for a key that a destroy had moved to the buffer
C3_Witness ==
    /\ last.op = "register"
    /\ TrackedEvent(last.con)
    /\ last.room
    /\ EventKey(last.con) \in Both

\* C4 (the claim as stated, for a destroy that directly follows the create):
\* a lookup directly after the destroy returns the reply tuple of the entry
\* created.
C4_Original ==
    (last.op = "get" /\ Len(last.prev) = 1 /\ Len(last.prev[1].prev) = 1)
        => last.res = ReplyTuple(last.prev[1].prev[1].con)

\* C4 (amended): a lookup directly after a NAT destroy for K returns the
\* translation state held for K when the destroy arrived, if state held one and
\* the buffer was below deleteBufferSize; that is the reply tuple of the create
\* when the create directly before the destroy was stored.
C4_DestroyThenGet ==
    (last.op = "get" /\ Len(last.prev) = 1 /\ last.prev[1].room)
        => /\ last.prev[1].res # NilTranslation => last.res = last.prev[1].res
           /\ (Len(last.prev[1].prev) = 1 /\ last.prev[1].prev[1].room)
                 => last.res = ReplyTuple(last.prev[1].prev[1].con)

\* create, destroy and lookup of one flow in a row, the lookup resolving
C4_Witness ==
    /\ last.op = "get"
    /\ Len(last.prev) = 1
    /\ last.prev[1].room
    /\ Len(last.prev[1].prev) = 1
    /\ last.prev[1].prev[1].room
    /\ last.res = ReplyTuple(last.prev[1].prev[1].con)
    /\ last.res # NilTranslation

\* C5 (the claim as stated): of the distinct flows destroyed since the last
\* clear, more than deleteBufferSize of them, the deleteBufferSize destroyed
\* last resolve and the ones destroyed earlier return absent.
C5_Original ==
    (/\ last.op = "get"
     /\ Distinct
     /\ Len(destroyed) > maxShortLivedBuffer
     /\ Place(last.key) > 0
     /\ last.key \notin DOMAIN state)
        => last.res = IF Place(last.key) > Len(destroyed) - maxShortLivedBuffer
                      THEN destroyed[Place(last.key)].tr
                      ELSE NilTranslation

\* C5 (amended): of the distinct flows destroyed since the last clear, the
\* deleteBufferSize destroyed first resolve and the ones destroyed later
\* return absent: a full buffer drops the incoming entry.
C5_EarliestKept ==
    (/\ last.op = "get"
     /\ Distinct
     /\ Place(last.key) > 0
     /\ last.key \notin DOMAIN state)
        => last.res = IF Place(last.key) <= maxShortLivedBuffer
                      THEN destroyed[Place(last.key)].tr
                      ELSE NilTranslation

\* more flows than the buffer holds were destroyed, and the last one is absent
C5_Witness ==
    /\ last.op = "get"
    /\ Distinct
    /\ Len(destroyed) > maxShortLivedBuffer
    /\ Place(last.key) = Len(destroyed)
    /\ last.key \notin DOMAIN state
    /\ last.res = NilTranslation
    /\ \A i \in 1..maxShortLivedBuffer : GetResult(destroyed[i].key) = destroyed[i].tr

\* C6: a create/update or destroy event that is not NAT, or whose protocol is
\* neither 6 nor 17, leaves state, shortLivedBuffer and the register and
\* unregister counters as they were.
C6_IgnoredEventsChangeNothing ==
    [][ (last'.op \in {"register", "unregister"} /\ ~TrackedEvent(last'.con))
            => /\ state' = state
               /\ shortLivedBuffer' = shortLivedBuffer
               /\ stats'.registers = stats.registers
               /\ stats'.unregisters = stats.unregisters ]_vars

\* a destroy that mirrors its origin tuple arrived for a flow state holds
C6_Witness ==
    /\ last.op = "unregister"
    /\ Mirror(last.con)
    /\ last.con.Origin.Src # last.con.Reply.Dst
    /\ EventKey(last.con) \in DOMAIN state

\* C7: a NAT entry of protocol TCP or UDP that the create/update callback
\* stores is returned by the lookup of its key as its reply tuple, and changes
\* what the lookup of no other key returns.
C7_StoredEntryResolves ==
    [][ /\ (last'.op = "register" /\ TrackedEvent(last'.con) /\ last'.room)
              => \A k \in LookupKeys :
                    GetResult(k)' = IF k = EventKey(last'.con)
                                    THEN ReplyTuple(last'.con)
                                    ELSE GetResult(k)
        /\ (/\ last.op = "register" /\ TrackedEvent(last.con) /\ last.room
            /\ last'.op = "get" /\ last'.key = EventKey(last.con))
              => last'.res = ReplyTuple(last.con) ]_vars

\* an entry given in 16-byte IPv4 form was stored while another flow resolves
C7_Witness ==
    /\ last.op = "register"
    /\ TrackedEvent(last.con)
    /\ last.room
    /\ last.con.Origin.Src.form = "v4in6"
    /\ last.con.Reply.Src.form = "v4in6"
    /\ GetResult(EventKey(last.con)) = ReplyTuple(last.con)
    /\ \E k \in LookupKeys \ {EventKey(last.con)} : GetResult(k) # NilTranslation

\* C8 (the claim as stated): a NAT create for a key not in state, when state
\* holds maxStateSize entries, leaves state as it is and the key's lookup
\* absent.
C8_Original ==
    [][ (/\ last'.op = "register" /\ TrackedEvent(last'.con)
         /\ len(state) = maxStateSize
         /\ EventKey(last'.con) \notin DOMAIN state)
            => /\ state' = state
               /\ \A k \in LookupKeys :
                     k = EventKey(last'.con) => GetResult(k)' = NilTranslation ]_vars

\* C8 (amended): a NAT create for a key not in state, when state holds
\* maxStateSize entries or more, leaves state and shortLivedBuffer as they are,
\* every key resolves as before, and the new key's lookup returns what the
\* buffer holds for it, absent if nothing.
C8_RejectedAtCapacity ==
    [][ (/\ last'.op = "register" /\ TrackedEvent(last'.con)
         /\ len(state) >= maxStateSize
         /\ EventKey(last'.con) \notin DOMAIN state)
            => /\ state' = state
               /\ shortLivedBuffer' = shortLivedBuffer
               /\ \A k \in LookupKeys : GetResult(k)' = GetResult(k)
               /\ \A k \in LookupKeys :
                     k = EventKey(last'.con)
                        => GetResult(k)' = IF k \in DOMAIN shortLivedBuffer
                                           THEN shortLivedBuffer[k]
                                           ELSE NilTranslation ]_vars

\* a create for a new key was turned away by a full state
C8_Witness ==
    /\ last.op = "register"
    /\ TrackedEvent(last.con)
    /\ ~last.room
    /\ len(state) = maxStateSize
    /\ EventKey(last.con) \notin DOMAIN state
    /\ GetResult(EventKey(last.con)) = NilTranslation

\* C9 (the claim as stated; register turns the event away): a NAT
\* create/update for a key already in state, when state holds maxStateSize
\* entries, overwrites the translation and refreshes the generation.
C9_UpdateAtCapacity ==
    [][ (/\ last'.op = "register" /\ TrackedEvent(last'.con)
         /\ len(state) = maxStateSize
         /\ EventKey(last'.con) \in DOMAIN state)
            => /\ EventKey(last'.con) \in DOMAIN state'
               /\ state'[EventKey(last'.con)] =
                     [IPTranslation |-> ReplyTuple(last'.con),
                      expGeneration |-> (CurrentGeneration + 3) % Uint8] ]_vars

\* C10: a compaction pass removes exactly the entries stamped with the current
\* generation, keeps the others as they are, leaves shortLivedBuffer alone and
\* adds the number removed to the expires counter; a stored entry is stamped
\* three generations ahead, so passes in its generation and the next two keep
\* it and a pass in the third removes it.
C10_CompactByGeneration ==
    [][ /\ last'.op = "compact"
              => /\ DOMAIN state' =
                       { k \in DOMAIN state :
                            state[k].expGeneration # CurrentGeneration }
                 /\ \A k \in DOMAIN state' : state'[k] = state[k]
                 /\ \A k \in DOMAIN state :
                       /\ (\E d \in 1..3 : state[k].expGeneration =
                                              (CurrentGeneration + d) % Uint8)
                             => k \in DOMAIN state'
                       /\ state[k].expGeneration = CurrentGeneration
                             => k \notin DOMAIN state'
                 /\ shortLivedBuffer' = shortLivedBuffer
                 /\ stats'.expiresTotal - stats.expiresTotal =
                       len(state) - len(state')
        /\ (last'.op = "register" /\ TrackedEvent(last'.con) /\ last'.room)
              => state'[EventKey(last'.con)].expGeneration =
                    (CurrentGeneration + 3) % Uint8 ]_vars

\* a pass ran in a generation the stamps had wrapped around to, entries
\* stamped with it three generations before are gone and another entry is kept
C10_Witness ==
    /\ last.op = "compact"
    /\ stats.expiresTotal > 0
    /\ CurrentGeneration < 3
    /\ state # EmptyMap

\* how many generations ahead of the current one the stamp of key k is
Lead(k) == (state[k].expGeneration - CurrentGeneration) % Uint8

\* C11: a lookup that finds its key in state stamps the entry three
\* generations ahead; the stamp's lead falls by one with each generation and
\* a compaction pass keeps every entry whose lead is 1, 2 or 3, so the passes
\* of the generation of the lookup and of the next two keep the entry.
C11_LookupRefreshes ==
    [][ /\ last'.op = "get"
              => \A k \in DOMAIN state :
                    k = last'.key
                       => /\ k \in DOMAIN state'
                          /\ state'[k].expGeneration = (CurrentGeneration + 3) % Uint8
                          /\ Lead(k)' = 3
                          /\ state'[k].IPTranslation = state[k].IPTranslation
        /\ last'.op = "tick"
              => /\ DOMAIN state' = DOMAIN state
                 /\ \A k \in DOMAIN state : Lead(k)' = (Lead(k) - 1) % Uint8
        /\ last'.op = "compact"
              => \A k \in DOMAIN state :
                    Lead(k) \in 1..3 => k \in DOMAIN state' /\ Lead(k)' = Lead(k)
        /\ last'.op \in {"get", "register", "clear"}
              => \A k \in DOMAIN state :
                    k \in DOMAIN state' /\ Lead(k)' \in {Lead(k), 3} ]_vars

\* a seeded entry was due in the generation the clock has reached, a lookup
\* found it there and the compaction pass that followed kept it
C11_Witness ==
    /\ last.op = "compact"
    /\ CurrentGeneration = 0
    /\ stats.registers = 0
    /\ stats.gets > 0
    /\ \E k \in DOMAIN state : state[k].expGeneration = 3

\* a lookup or a stored create/update has just put a new stamp on key k,
\* which state held before
Restamped(k) ==
    /\ k \in DOMAIN state
    /\ k = last'.key
    /\ \/ last'.op = "get"
       \/ last'.op = "register" /\ TrackedEvent(last'.con) /\ last'.room

C13_ClearEmptiesBuffer ==
    [][ /\ last'.op = "clear"
              => /\ shortLivedBuffer' = EmptyMap
                 /\ state' = state
                 /\ \A k \in LookupKeys :
                       GetResult(k)' = IF k \in DOMAIN state
                                       THEN state[k].IPTranslation
                                       ELSE NilTranslation
        /\ last'.op # "clear"
              => \A k \in LookupKeys :
                    (k \in DOMAIN shortLivedBuffer /\ k \notin DOMAIN state)
                       => /\ k \in DOMAIN shortLivedBuffer'
                          /\ shortLivedBuffer'[k] = shortLivedBuffer[k]
                          /\ GetResult(k) = shortLivedBuffer[k]
                          /\ k \notin DOMAIN state' => GetResult(k)' = GetResult(k) ]_vars

\* a flow was destroyed while the buffer had room, the lookup after the
\* destroy returned its translation, and after the clear that followed the
\* lookup of the key returns nothing
C13_Witness ==
    /\ last.op = "clear"
    /\ Len(last.prev) = 1
    /\ last.prev[1].res # NilTranslation
    /\ last.prev[1].prev[1].room
    /\ last.prev[1].prev[1].res = last.prev[1].res
    /\ GetResult(last.prev[1].key) = NilTranslation
    /\ shortLivedBuffer = EmptyMap

\* C14: a NAT create event delivered a second time directly after the first
\* leaves shortLivedBuffer, the keys of state and the translation of every key
\* as the first delivery left them; only the stamp of its key may differ.
C14_CreateIdempotent ==
    [][ (/\ last.op = "register" /\ last'.op = "register"
         /\ last'.con = last.con /\ TrackedEvent(last.con))
            => /\ shortLivedBuffer' = shortLivedBuffer
               /\ DOMAIN state' = DOMAIN state
               /\ \A k \in DOMAIN state :
                     /\ state'[k].IPTranslation = state[k].IPTranslation
                     /\ k # EventKey(last.con) => state'[k] = state[k] ]_vars

\* the one UDP event there is was stored twice, nothing else was stored,
\* looked up or taken out, and its key resolves to its reply tuple
C14_Witness ==
    /\ last.op = "register"
    /\ last.con.Origin.Proto.Number = 17
    /\ last.room
    /\ stats = [gets |-> 0, registers |-> 2, unregisters |-> 0, expiresTotal |-> 0]
    /\ DOMAIN state = {EventKey(last.con)}
    /\ GetResult(EventKey(last.con)) = ReplyTuple(last.con)

\* C15 (the claim as stated; the map has no key expires_total): the map
\* GetStats returns holds state_size, short_term_buffer_size and
\* expires_total, with the sizes read and the number of entries compaction
\* dropped, and holds the total and the time per call of gets, registers and
\* unregisters just when that counter is not zero.
C15_GetStatsKeys ==
    last.op = "GetStats"
        => /\ {"state_size", "short_term_buffer_size", "expires_total"}
                 \subseteq DOMAIN last.m
           /\ last.m["state_size"] = last.size
           /\ last.m["short_term_buffer_size"] = last.stBufSize
           /\ last.m["expires_total"] = stats.expiresTotal
           /\ {"gets_total", "nanoseconds_per_get"} \subseteq DOMAIN last.m
                 <=> stats.gets # 0
           /\ {"registers_total", "nanoseconds_per_register"} \subseteq DOMAIN last.m
                 <=> stats.registers # 0
           /\ {"unregisters_total", "nanoseconds_per_unregister"}
                 \subseteq DOMAIN last.m <=> stats.unregisters # 0

\* C16 (the claim as stated; Close leaves the handles open and the callbacks
\* registered): once Close has returned both handles are closed and no
\* create/update callback, destroy callback or compaction pass changes state
\* or shortLivedBuffer.
C16_ClosedIsQuiet ==
    [][ exceededSizeLogLimit = "closed"
           => /\ nfct = "closed"
              /\ nfctDel = "closed"
              /\ last'.op \in {"register", "unregister", "compact"}
                    => state' = state /\ shortLivedBuffer' = shortLivedBuffer ]_vars

\* C17: NewConntracker returns an error and no tracker when deleteBufferSize
\* is not positive, and then no handle is ever opened; when a handle fails to
\* open or the IPv4 dump fails, newConntrackerOnce goes to return its error,
\* which is what NewConntracker then returns unless the timeout comes first;
\* the timeout is returned only while the construction has not handed over,
\* and an error or a timeout once returned stays; when only the IPv6 dump
\* fails, construction goes on with state holding the NAT entries of the IPv4
\* dump, and the tracker handed over has both handles open, both callbacks
\* registered, the ticker running and run started.
C17_ConstructionErrors ==
    [][ /\ maxShortLivedBuffer <= 0
              => nfct' = "nil" /\ nfctDel' = "nil" /\ caller' # "tracker"
        /\ (pc \in {"start", "openNfct", "openNfctDel", "dumpIPv4"}
               /\ pc' # pc /\ ~last'.ok)
              => pc' = "sendErr"
        /\ pc = "sendErr"
              => \/ pc' = "sendErr" /\ caller' \in {caller, "timeout"}
                 \/ pc' = "done" /\ caller' = "error"
        /\ caller \in {"error", "timeout"} => caller' = caller
        /\ (caller = "waiting" /\ caller' = "timeout") => pc # "done"
        /\ (pc = "dumpIPv6" /\ pc' # pc /\ ~last'.ok)
              => /\ pc' = "goRun"
                 /\ ~crashed'
                 /\ state' = state
                 /\ state = loadInitialState(EmptyMap, last.sessions,
                                getNthGeneration(generationLength, now, 3))
        /\ (caller = "waiting" /\ caller' = "tracker")
              => /\ nfct = "open" /\ nfctDel = "open"
                 /\ hooks = {"register", "unregister"}
                 /\ compactTicker.state = "running"
                 /\ runStarted
                 /\ maxShortLivedBuffer > 0 ]_vars

\* the IPv6 dump failed and the tracker was handed over, its state holding
\* the one NAT entry of the IPv4 dump
C17_Witness ==
    /\ caller = "tracker"
    /\ last.op = "dumpIPv6"
    /\ ~last.ok
    /\ last.sessions = <<(<<GoodCon>>), <<>> >>
    /\ DOMAIN state = {EventKey(GoodCon)}
    /\ GetResult(EventKey(GoodCon)) = ReplyTuple(GoodCon)

\* C18 (the claim as stated; nothing is released): when NewConntracker has
\* returned an error or the timeout, no handle is open, the ticker does not
\* run, the log-rate limiter is not open and no callback is registered.
C18_FailureReleases ==
    caller \in {"error", "timeout"}
        => /\ nfct # "open"
           /\ nfctDel # "open"
           /\ compactTicker.state # "running"
           /\ exceededSizeLogLimit # "open"
           /\ hooks = {}
           /\ ~runStarted

\* C19 (the claim as stated; a nil address or protocol number is
\* dereferenced): an entry with a required field absent makes neither
\* callback nor the seeding panic, and leaves state and shortLivedBuffer as
\* they were.
C19_MalformedIgnored ==
    [][ /\ (last'.op \in {"register", "unregister"} /\ Malformed(last'.con))
              => /\ ~crashed'
                 /\ state' = state
                 /\ shortLivedBuffer' = shortLivedBuffer
        /\ (pc \in {"dumpIPv4", "dumpIPv6"} /\ pc' # pc) => ~crashed' ]_vars

\* the contexts that are working on state or shortLivedBuffer: a handler
\* between its Lock and its Unlock, and the goroutine of newConntrackerOnce
\* from the IPv4 dump to the end of the second loadInitialState
Accessing ==
    { self \in Contexts : at[self].pos \in {"critical", "Unlock"} }
       \cup (IF pc \in {"dumpIPv4", "dumpIPv6"} THEN {"init"} ELSE {})

\* C20: no two contexts work on state or shortLivedBuffer at the same time:
\* a lookup, ClearShortLived, GetStats, the create/update callback, the
\* destroy callback and compaction work on them holding the mutex, and while
\* newConntrackerOnce seeds state without it, run is not started, no callback
\* is registered and nobody has the tracker
C20_Serialized ==
    /\ Cardinality(Accessing) <= 1
    /\ \A self \in Contexts : self \in Accessing => mutex = self
    /\ "init" \in Accessing =>
          /\ ~runStarted
          /\ hooks = {}
          /\ caller # "tracker"
          /\ \A self \in Contexts : at[self] = Idle

\* the create/update callback works on a seeded state holding the mutex while
\* compaction and a lookup wait in Lock
C20_Witness ==
    /\ mutex = "nfct"
    /\ at["nfct"].pos = "critical"
    /\ at["run"].pos = "Lock"
    /\ at["api"].pos = "Lock" /\ at["api"].op = "GetTranslationForConn"
    /\ len(state) = 1
    /\ stats.registers = 0

\* what the buffer holds for key k, nil when it holds nothing
Buffered(k) ==
    IF k \in DOMAIN shortLivedBuffer THEN shortLivedBuffer[k] ELSE NilTranslation

\* C23: a NAT destroy for a key state holds, arriving when the buffer holds
\* maxShortLivedBuffer entries, takes the key out of state and leaves the
\* buffer as it was; the lookup of the key directly after returns what the
\* buffer held for it before, absent if nothing.
C23_TransferDropped ==
    [][ /\ (/\ last'.op = "unregister" /\ TrackedEvent(last'.con)
            /\ EventKey(last'.con) \in DOMAIN state
            /\ len(shortLivedBuffer) >= maxShortLivedBuffer)
              => /\ state' = MapDelete(state, EventKey(last'.con))
                 /\ shortLivedBuffer' = shortLivedBuffer
                 /\ \A k \in LookupKeys :
                       k = EventKey(last'.con) => GetResult(k)' = Buffered(k)
        /\ (/\ last.op = "unregister" /\ TrackedEvent(last.con)
            /\ last.res # NilTranslation /\ ~last.room
            /\ last'.op = "get" /\ last'.key = EventKey(last.con))
              => last'.res = Buffered(last'.key) ]_vars

\* a destroy took a flow out of state while the buffer was full of another
\* flow, and the flow does not resolve
C23_Witness ==
    /\ last.op = "unregister"
    /\ TrackedEvent(last.con)
    /\ last.res # NilTranslation
    /\ ~last.room
    /\ EventKey(last.con) \notin DOMAIN state
    /\ EventKey(last.con) \notin DOMAIN shortLivedBuffer
    /\ len(shortLivedBuffer) = maxShortLivedBuffer
    /\ GetResult(EventKey(last.con)) = NilTranslation

\* C24: a NAT destroy for a key state does not hold leaves state and the
\* buffer as they were, and a create for the key directly after it is stored
\* as any create is: with its reply tuple, stamped three generations ahead,
\* when state is below maxStateSize.
C24_DestroyOfAbsent ==
    [][ /\ (/\ last'.op = "unregister" /\ TrackedEvent(last'.con)
            /\ EventKey(last'.con) \notin DOMAIN state)
              => /\ state' = state
                 /\ shortLivedBuffer' = shortLivedBuffer
        /\ (/\ last.op = "unregister" /\ TrackedEvent(last.con)
            /\ last.res = NilTranslation
            /\ last'.op = "register" /\ TrackedEvent(last'.con)
            /\ EventKey(last'.con) = EventKey(last.con)
            /\ len(state) < maxStateSize)
              => /\ EventKey(last'.con) \in DOMAIN state'
                 /\ state'[EventKey(last'.con)] =
                       [IPTranslation |-> ReplyTuple(last'.con),
                        expGeneration |-> (CurrentGeneration + 3) % Uint8]
                 /\ shortLivedBuffer' = shortLivedBuffer ]_vars

\* the first destroy the tracker saw was for a flow it did not hold, there is
\* room in state for its create, and neither store holds the flow
C24_Witness ==
    /\ last.op = "unregister"
    /\ TrackedEvent(last.con)
    /\ last.res = NilTranslation
    /\ stats.unregisters = 1
    /\ EventKey(last.con) \notin DOMAIN state
    /\ shortLivedBuffer = EmptyMap
    /\ len(state) = 1
    /\ len(state) < maxStateSize

\* C25: a lookup returns what state holds for the key and, only when state
\* holds nothing, what the buffer holds; it changes nothing but the generation
\* stamp of the entry it finds in state: the keys of state and the buffer and
\* every stored translation stay, on a buffer hit or a miss both stores stay
\* as they are; and it adds exactly one to the gets counter.
C25_LookupFrame ==
    [][ last'.op = "get"
          => /\ last'.res = IF last'.key \in DOMAIN state
                            THEN state[last'.key].IPTranslation
                            ELSE Buffered(last'.key)
             /\ DOMAIN state' = DOMAIN state
             /\ \A k \in DOMAIN state :
                   /\ state'[k].IPTranslation = state[k].IPTranslation
                   /\ k # last'.key => state'[k] = state[k]
             /\ last'.key \notin DOMAIN state => state' = state
             /\ shortLivedBuffer' = shortLivedBuffer
             /\ stats' = [stats EXCEPT !.gets = @ + 1] ]_vars

\* a lookup of a key that both stores hold, with another entry in state
C25_Witness ==
    /\ last.op = "get"
    /\ last.key \in Both
    /\ last.res = state[last.key].IPTranslation
    /\ len(state) = 2

\* C28 (the claim as stated, for the create/update that comes directly
\* before the lookup; register turns the event away when state is full): a
\* translation the lookup of K returns is the reply tuple of the last NAT
\* create/update delivered for K.
C28_NeverStale ==
    [][ (/\ last.op = "register" /\ TrackedEvent(last.con)
         /\ last'.op = "get" /\ last'.key = EventKey(last.con)
         /\ last'.res # NilTranslation)
            => last'.res = ReplyTuple(last.con) ]_vars

\* the translation a lookup of key k finds
Pointee(k) == IF PointerOf(k) = NilPointer THEN NilTranslation ELSE heap[PointerOf(k)]

\* C21 (the claim as stated; the lookup hands out the stored pointer): what
\* a caller writes into the translation it was handed changes neither what
\* state or the buffer hold nor what a lookup finds.
C21_ReturnedIsCopy ==
    [][ last'.op = "callerWrites"
          => \A k \in AliasKeys : Pointee(k)' = Pointee(k) ]_vars

\* C22: the cluster name is resolved once per data object: since the object
\* was made or reset, the setting was read and each provider was called at most
\* once; a getClusterName that finds initDone false reads the setting, and
\* returns it when it is a valid name and else what the providers yield, the
\* empty string when none does; a getClusterName that finds initDone true
\* returns the name computed then and reads nothing, whatever the setting is
\* now.
C22_ResolvedOnce ==
    [][ /\ \A d \in DataObjects :
              /\ consulted'[d].config <= 1
              /\ \A p \in ProviderCatalog : consulted'[d].providers[p] <= 1
        /\ \A g \in Goroutines :
              (/\ goroutines[g].pos = "locked"
               /\ goroutines[g].op = "getClusterName"
               /\ goroutines'[g].pos = "Unlock")
                 => LET d == goroutines[g].data
                    IN  IF clusterNameData[d].initDone
                        THEN /\ goroutines'[g].ret = consulted[d].name
                             /\ consulted' = consulted
                             /\ clusterNameData' = clusterNameData
                        ELSE /\ consulted'[d].config = consulted[d].config + 1
                             /\ clusterNameData'[d].initDone
                             /\ goroutines'[g].ret = consulted'[d].name
                             /\ IF fromConfig(config) # Unset
                                THEN /\ goroutines'[g].ret = config
                                     /\ consulted'[d].providers =
                                           consulted[d].providers
                                ELSE goroutines'[g].ret \in
                                        {Unset} \cup { DiscoveredName(p) :
                                                         p \in ProviderCatalog } ]_vars

\* a call returns the name cached for the default object while the setting
\* holds another name and a second caller waits for the mutex, and the other
\* object has cached the empty string, every provider asked once
C22_Witness ==
    /\ goroutines["g1"] =
          Doing("Unlock", "getClusterName", "defaultClusterNameData", Laika)
    /\ goroutines["g2"].pos = "Lock"
    /\ goroutines["g2"].op = "getClusterName"
    /\ goroutines["g2"].data = "defaultClusterNameData"
    /\ config = Youri
    /\ consulted["defaultClusterNameData"].config = 1
    /\ clusterNameData["freshData"] =
          [clusterName |-> Unset, initDone |-> TRUE, mutex |-> "free"]
    /\ \A p \in ProviderCatalog : consulted["freshData"].providers[p] = 1

\* C26: with a tick every compactInterval and a pass for every tick, an entry
\* of state never outlives the generation it is stamped with, which is at most
\* three generations ahead of the current one, so that it leaves state within
\* four generation lengths of its last create/update or lookup; and every
\* entry of state leaves state in the end.
C26_EventuallyRemoved ==
    /\ [](\A k \in TimeKeys : k \in DOMAIN state => Lead(k) <= 3)
    /\ \A k \in TimeKeys : (k \in DOMAIN state) ~> (k \notin DOMAIN state)

\* a lookup has refreshed an entry, no event or lookup comes any more, and
\* the pass of the entry's generation has taken it out
C26_Witness ==
    /\ last.op = "compact"
    /\ state = EmptyMap
    /\ stats.gets = 1
    /\ stats.expiresTotal = 1
    /\ now >= OpsUntil

====
